---- MODULE Spec2Model ----
(***************************************************************************)
(* Multi-particle interaction solver of miepy (src/miepy/interactions.py): *)
(* sphere_cluster_tmatrix, particle_cluster_tmatrix and the two solve_*    *)
(* entry points, modelled one loop iteration per step.                     *)
(*                                                                         *)
(* Numbers.  The assembly uses only ring operations (products, sign        *)
(* factors (-1)**e, sums in the einsum), so complex values are modelled by *)
(* integers.  An array is a record [shape, data]: shape is the numpy shape *)
(* tuple, data the elements in C order (the flat index of a 0-based index  *)
(* tuple is given by Flat2..Flat6).                                        *)
(***************************************************************************)
EXTENDS Integers, Sequences, FiniteSets, TLC

\* Largest particle count and largest truncation degree explored.
MaxN == 3
MaxLmax == 2

VARIABLES
    func,                \* "sphere": solve_sphere_cluster, "particle": solve_particle_cluster
    positions,           \* positions[N,3]
    a,                   \* a[N,2,lmax]              (sphere entry point)
    tmatrix,             \* tmatrix[N,2,rmax,2,rmax] (particle entry point)
    p_src,               \* p_src[N,2,rmax]
    k,                   \* medium wavenumber
    translation,         \* which Translation Operator is behind miepy.vsh.vsh_translation
    pc,                  \* position in the call
    err,                 \* exception that ended the call, "none" otherwise
    Nparticles, lmax, rmax,
    i, j, r, s,          \* loop variables (r, s: linear mode indices)
    geom,                \* [r_ji, theta_ji, phi_ji] of the current pair
    interaction_matrix,
    t_matrix,            \* value returned by *_cluster_tmatrix (A in solve_*)
    sol,                 \* value returned by solve_*
    calls,               \* history: the (i,j,r,s) iterations that called vsh_translation
    ncalls,              \* history: number of vsh_translation calls
    written              \* history: written[q] iff element q (flat index) of
                         \* interaction_matrix has been assigned

vars == <<func, positions, a, tmatrix, p_src, k, translation, pc, err,
          Nparticles, lmax, rmax, i, j, r, s, geom, interaction_matrix,
          t_matrix, sol, calls, ncalls, written>>

inputs == <<func, positions, a, tmatrix, p_src, k, translation>>

-----------------------------------------------------------------------------
(* Arrays *)

Range(n) == 0 .. (n - 1)

NoArray == [shape |-> <<>>, data |-> <<>>]

RECURSIVE Product(_)
Product(sh) == IF sh = <<>> THEN 1 ELSE Head(sh) * Product(Tail(sh))

\* C-order flat index of an index tuple x in an array of shape sh
Flat2(x, sh) == x[1] * sh[2] + x[2]
Flat3(x, sh) == (x[1] * sh[2] + x[2]) * sh[3] + x[3]
Flat5(x, sh) == (((x[1] * sh[2] + x[2]) * sh[3] + x[3]) * sh[4] + x[4]) * sh[5] + x[5]
Flat6(x, sh) ==
    ((((x[1] * sh[2] + x[2]) * sh[3] + x[3]) * sh[4] + x[4]) * sh[5] + x[5]) * sh[6] + x[6]

\* the index tuple with flat index q: axis p of Unflat(q, sh)
RECURSIVE Unflat(_, _)
Unflat(q, sh) ==
    IF sh = <<>> THEN <<>>
    ELSE LET rest == Product(Tail(sh))
         IN  <<q \div rest>> \o Unflat(q % rest, Tail(sh))

\* np.zeros(shape = (Nparticles, 2, rmax, Nparticles, 2, rmax), dtype=complex)
Zeros(N, rm) ==
    LET sh == <<N, 2, rm, N, 2, rm>>
    IN  [shape |-> sh, data |-> [q \in Range(Product(sh)) |-> 0]]

\* identity = zeros; np.einsum('airair->air', identity)[...] = 1
IdentityMut(N, rm) ==
    LET One(x) == IF x[1] = x[4] /\ x[3] = x[6] THEN 1 ELSE 0
    IN  [shape |-> <<N, 2, rm, N, 2, rm>>,
         data  |-> [qq \in Range(Product(<<N, 2, rm, N, 2, rm>>)) |-> One(Unflat(qq, <<N, 2, rm, N, 2, rm>>))]]

Identity(N, rm) ==
    LET One(x) == IF x[1] = x[4] /\ x[2] = x[5] /\ x[3] = x[6] THEN 1 ELSE 0
    IN  [shape |-> <<N, 2, rm, N, 2, rm>>,
         data  |-> [qq \in Range(Product(<<N, 2, rm, N, 2, rm>>)) |-> One(Unflat(qq, <<N, 2, rm, N, 2, rm>>))]]

\* identity + interaction_matrix
AddArrays(x, y) ==
    [shape |-> x.shape, data |-> [q \in Range(Product(x.shape)) |-> x.data[q] + y.data[q]]]

-----------------------------------------------------------------------------
(* Mode Index Enumerator (miepy.vsh.mode_indices) *)

\* rmax = lmax(lmax+2)
lmax_to_rmax(l) == l * (l + 2)

\* the lmax with lmax(lmax+2) = rmax
rmax_to_lmax(rm) == CHOOSE l \in 0 .. rm : l * (l + 2) = rm

\* linear index of mode (n, m): forces.py computes the index of (n, m+1)
\* as n**2 + n - 1 + m + 1
ModeIndex(n, m) == n * n + n - 1 + m

\* for r,n,m in mode_indices(lmax): triples in ascending n, then ascending m
RECURSIVE ModesOfDegree(_, _)
ModesOfDegree(n, m) ==
    IF m > n THEN <<>>
    ELSE <<(<<ModeIndex(n, m), n, m>>)>> \o ModesOfDegree(n, m + 1)

RECURSIVE ModesFrom(_, _)
ModesFrom(n, l) ==
    IF n > l THEN <<>> ELSE ModesOfDegree(n, -n) \o ModesFrom(n + 1, l)

mode_indices(l) == ModesFrom(1, l)

\* the triple the p-th iteration of "for r,n,m in mode_indices(lmax)" yields
ModeAt(l, p) == mode_indices(l)[p + 1]

-----------------------------------------------------------------------------
(* Sign factors and geometry *)

\* (-1)**e
MinusOnePowMut(e) == -1

MinusOnePow(e) == IF e % 2 = 0 THEN 1 ELSE -1

\* dji = pi - pj
Sub3(p, q) == <<p[1] - q[1], p[2] - q[2], p[3] - q[3]>>

\* positions[n]
Row3(arr, n) ==
    <<arr.data[Flat2(<<n, 0>>, arr.shape)], arr.data[Flat2(<<n, 1>>, arr.shape)],
      arr.data[Flat2(<<n, 2>>, arr.shape)]>>

\* r_ji = norm(dji), theta_ji = arccos(dji[2]/r_ji), phi_ji = arctan2(dji[1], dji[0]).
\* The distance is kept as its square, the angles as the arguments of the
\* inverse trigonometric functions: theta = <<z, r^2>> stands for arccos(z/r)
\* (at zero separation <<0, 0>>, the 0/0 whose arccos is nan) and
\* phi = <<y, x>> for arctan2(y, x).
Spherical(d) ==
    LET r2 == d[1] * d[1] + d[2] * d[2] + d[3] * d[3]
    IN  [r_ji |-> r2, theta_ji |-> <<d[3], r2>>, phi_ji |-> <<d[2], d[1]>>]

PairGeometry(pos, ii, jj) == Spherical(Sub3(Row3(pos, ii), Row3(pos, jj)))

-----------------------------------------------------------------------------
(* VSH Translation Operator: an injected black box.  Two stand-ins are     *)
(* explored: "generic" returns values with no relation between a           *)
(* separation and its reverse; "parity" satisfies A(-d) = (-1)^(n+v) A(d)  *)
(* and B(-d) = (-1)^(n+v+1) B(d).  Both are pure functions of the four     *)
(* mode integers, the separation and the wavenumber.                       *)

Abs(x) == IF x < 0 THEN -x ELSE x

CantorPair(x, y) == ((x + y) * (x + y + 1)) \div 2 + y

\* the separation is the zero vector (r_ji = 0, theta_ji = nan)
Degenerate(g) == g.r_ji = 0

\* the separation lies in the half-space opposite to its canonical representative
Reversed(g) ==
    LET z == g.theta_ji[1]  y == g.phi_ji[1]  x == g.phi_ji[2]
    IN  z < 0 \/ (z = 0 /\ (y < 0 \/ (y = 0 /\ x < 0)))

GeomMix(g, kk) ==
    (g.r_ji + 2 * Abs(g.theta_ji[1]) + 3 * Abs(g.phi_ji[1])
       + 5 * Abs(g.phi_ji[2]) + kk) % 5

\* the value of the reversal-invariant part
TransferBase(m, n, u, v, g, kk) ==
    2 * CantorPair(ModeIndex(n, m), ModeIndex(v, u)) + 1000 * GeomMix(g, kk)

\* the parity (-1)^e as the Translation Operator's contract states it
Parity(e) == IF e % 2 = 0 THEN 1 ELSE -1

ParitySign(e, g) ==
    IF Degenerate(g) THEN (IF e % 2 = 0 THEN 1 ELSE 0)
    ELSE IF Reversed(g) THEN Parity(e) ELSE 1

\* A_transfer, B_transfer = miepy.vsh.vsh_translation(m, n, u, v, r_ji, theta_ji, phi_ji, k,
\*                                                    miepy.VSH_mode.outgoing)
vsh_translation(kind, m, n, u, v, g, kk) ==
    LET base == TransferBase(m, n, u, v, g, kk)
    IN  IF kind = "parity"
        THEN <<ParitySign(n + v, g) * (base + 1), ParitySign(n + v + 1, g) * (base + 2)>>
        ELSE <<base + 1 + (IF Reversed(g) THEN 500 ELSE 0),
               base + 2 + (IF Reversed(g) THEN 700 ELSE 0)>>

-----------------------------------------------------------------------------
(* The body of the mode double loop *)

\* if s - 2*u < r: continue
SkipGuardMut(rr, ss, u) == ss < rr

SkipGuardStrict(rr, ss, u) == ss - 2 * u <= rr

SkipGuard(rr, ss, u) == ss - 2 * u < rr

\* the sixteen assignments of sphere_cluster_tmatrix, in program order, as
\* <<index tuple, value>>
SphereWritesMut(ii, jj, rr, n, m, ss, v, u, A, B, aa) ==
    LET c(p, q, d) == aa.data[Flat3(<<p, q, d - 1>>, aa.shape)]
    IN  << <<(<<ii, 0, rr, jj, 0, ss>>), A * c(jj, 0, v)>>,
           <<(<<ii, 0, rr, jj, 1, ss>>), B * c(jj, 1, v)>>,
           <<(<<ii, 1, rr, jj, 0, ss>>), B * c(jj, 0, v)>>,
           <<(<<ii, 1, rr, jj, 1, ss>>), A * c(jj, 1, v)>>,
           <<(<<jj, 0, rr, jj, 0, ss>>), MinusOnePow(n + v) * A * c(ii, 0, v)>>,
           <<(<<jj, 0, rr, ii, 1, ss>>), MinusOnePow(n + v + 1) * B * c(ii, 1, v)>>,
           <<(<<jj, 1, rr, ii, 0, ss>>), MinusOnePow(n + v + 1) * B * c(ii, 0, v)>>,
           <<(<<jj, 1, rr, ii, 1, ss>>), MinusOnePow(n + v) * A * c(ii, 1, v)>>,
           <<(<<ii, 0, ss - 2 * u, jj, 0, rr - 2 * m>>), MinusOnePow(m + u) * A * c(jj, 0, n)>>,
           <<(<<ii, 0, ss - 2 * u, jj, 1, rr - 2 * m>>), MinusOnePow(m + u + 1) * B * c(jj, 1, n)>>,
           <<(<<ii, 1, ss - 2 * u, jj, 0, rr - 2 * m>>), MinusOnePow(m + u + 1) * B * c(jj, 0, n)>>,
           <<(<<ii, 1, ss - 2 * u, jj, 1, rr - 2 * m>>), MinusOnePow(m + u) * A * c(jj, 1, n)>>,
           <<(<<jj, 0, ss - 2 * u, ii, 0, rr - 2 * m>>), MinusOnePow(m + u + n + v) * A * c(ii, 0, n)>>,
           <<(<<jj, 0, ss - 2 * u, ii, 1, rr - 2 * m>>), MinusOnePow(m + u + n + v) * B * c(ii, 1, n)>>,
           <<(<<jj, 1, ss - 2 * u, ii, 0, rr - 2 * m>>), MinusOnePow(m + u + n + v) * B * c(ii, 0, n)>>,
           <<(<<jj, 1, ss - 2 * u, ii, 1, rr - 2 * m>>), MinusOnePow(m + u + n + v) * A * c(ii, 1, n)>> >>

SphereWrites(ii, jj, rr, n, m, ss, v, u, A, B, aa) ==
    LET c(p, q, d) == aa.data[Flat3(<<p, q, d - 1>>, aa.shape)]
    IN  << <<(<<ii, 0, rr, jj, 0, ss>>), A * c(jj, 0, v)>>,
           <<(<<ii, 0, rr, jj, 1, ss>>), B * c(jj, 1, v)>>,
           <<(<<ii, 1, rr, jj, 0, ss>>), B * c(jj, 0, v)>>,
           <<(<<ii, 1, rr, jj, 1, ss>>), A * c(jj, 1, v)>>,
           <<(<<jj, 0, rr, ii, 0, ss>>), MinusOnePow(n + v) * A * c(ii, 0, v)>>,
           <<(<<jj, 0, rr, ii, 1, ss>>), MinusOnePow(n + v + 1) * B * c(ii, 1, v)>>,
           <<(<<jj, 1, rr, ii, 0, ss>>), MinusOnePow(n + v + 1) * B * c(ii, 0, v)>>,
           <<(<<jj, 1, rr, ii, 1, ss>>), MinusOnePow(n + v) * A * c(ii, 1, v)>>,
           <<(<<ii, 0, ss - 2 * u, jj, 0, rr - 2 * m>>), MinusOnePow(m + u) * A * c(jj, 0, n)>>,
           <<(<<ii, 0, ss - 2 * u, jj, 1, rr - 2 * m>>), MinusOnePow(m + u + 1) * B * c(jj, 1, n)>>,
           <<(<<ii, 1, ss - 2 * u, jj, 0, rr - 2 * m>>), MinusOnePow(m + u + 1) * B * c(jj, 0, n)>>,
           <<(<<ii, 1, ss - 2 * u, jj, 1, rr - 2 * m>>), MinusOnePow(m + u) * A * c(jj, 1, n)>>,
           <<(<<jj, 0, ss - 2 * u, ii, 0, rr - 2 * m>>), MinusOnePow(m + u + n + v) * A * c(ii, 0, n)>>,
           <<(<<jj, 0, ss - 2 * u, ii, 1, rr - 2 * m>>), MinusOnePow(m + u + n + v) * B * c(ii, 1, n)>>,
           <<(<<jj, 1, ss - 2 * u, ii, 0, rr - 2 * m>>), MinusOnePow(m + u + n + v) * B * c(ii, 0, n)>>,
           <<(<<jj, 1, ss - 2 * u, ii, 1, rr - 2 * m>>), MinusOnePow(m + u + n + v) * A * c(ii, 1, n)>> >>

\* the sixteen assignments of particle_cluster_tmatrix, in program order
ParticleWrites(ii, jj, rr, n, m, ss, v, u, A, B) ==
    << <<(<<ii, 0, rr, jj, 0, ss>>), A>>,
       <<(<<ii, 0, rr, jj, 1, ss>>), B>>,
       <<(<<ii, 1, rr, jj, 0, ss>>), B>>,
       <<(<<ii, 1, rr, jj, 1, ss>>), A>>,
       <<(<<jj, 0, rr, ii, 0, ss>>), MinusOnePow(n + v) * A>>,
       <<(<<jj, 0, rr, ii, 1, ss>>), MinusOnePow(n + v + 1) * B>>,
       <<(<<jj, 1, rr, ii, 0, ss>>), MinusOnePow(n + v + 1) * B>>,
       <<(<<jj, 1, rr, ii, 1, ss>>), MinusOnePow(n + v) * A>>,
       <<(<<ii, 0, ss - 2 * u, jj, 0, rr - 2 * m>>), MinusOnePow(m + u) * A>>,
       <<(<<ii, 0, ss - 2 * u, jj, 1, rr - 2 * m>>), MinusOnePow(m + u + 1) * B>>,
       <<(<<ii, 1, ss - 2 * u, jj, 0, rr - 2 * m>>), MinusOnePow(m + u + 1) * B>>,
       <<(<<ii, 1, ss - 2 * u, jj, 1, rr - 2 * m>>), MinusOnePow(m + u) * A>>,
       <<(<<jj, 0, ss - 2 * u, ii, 0, rr - 2 * m>>), MinusOnePow(m + u + n + v) * A>>,
       <<(<<jj, 0, ss - 2 * u, ii, 1, rr - 2 * m>>), MinusOnePow(m + u + n + v) * B>>,
       <<(<<jj, 1, ss - 2 * u, ii, 0, rr - 2 * m>>), MinusOnePow(m + u + n + v) * B>>,
       <<(<<jj, 1, ss - 2 * u, ii, 1, rr - 2 * m>>), MinusOnePow(m + u + n + v) * A>> >>

\* numpy index normalisation: a negative index counts from the end
InBounds(raw, sh) == \A q \in 1 .. 6 : raw[q] >= -sh[q] /\ raw[q] < sh[q]

NpIndex(raw, sh) == [q \in 1 .. 6 |-> IF raw[q] < 0 THEN raw[q] + sh[q] ELSE raw[q]]

\* Performs the assignments ws[p..] in order on st = [m, n, ok]: m the array,
\* n the number of assignments made, ok FALSE once an index is out of bounds
\* (IndexError: the assignments before it have been made).
RECURSIVE ApplyWrites(_, _, _)
ApplyWrites(st, ws, p) ==
    IF p > Len(ws) THEN st
    ELSE LET raw == ws[p][1]
         IN  IF ~InBounds(raw, st.m.shape) THEN [st EXCEPT !.ok = FALSE]
             ELSE LET q == Flat6(NpIndex(raw, st.m.shape), st.m.shape)
                  IN  ApplyWrites([m  |-> [st.m EXCEPT !.data[q] = ws[p][2]],
                                   n  |-> st.n + 1,
                                   ok |-> TRUE], ws, p + 1)

\* marks the targets of the assignments ws[p..n] as assigned
RECURSIVE MarkWritten(_, _, _, _, _)
MarkWritten(w, sh, ws, p, n) ==
    IF p > n THEN w
    ELSE MarkWritten([w EXCEPT ![Flat6(NpIndex(ws[p][1], sh), sh)] = TRUE],
                     sh, ws, p + 1, n)

\* The assignments of iteration (r, s) = (rr, ss) of pair (ii, jj).
IterationWritesMut(fn, kind, g, aa, kk, l, ii, jj, rr, ss) ==
    LET mr == ModeAt(l, rr)
        ms == ModeAt(l, ss)
        n == mr[2]  m == mr[3]  v == ms[2]  u == ms[3]
        AB == vsh_translation(kind, u, v, m, n, g, kk)
    IN  IF fn = "sphere"
        THEN SphereWrites(ii, jj, mr[1], n, m, ms[1], v, u, AB[1], AB[2], aa)
        ELSE ParticleWrites(ii, jj, mr[1], n, m, ms[1], v, u, AB[1], AB[2])

IterationWrites(fn, kind, g, aa, kk, l, ii, jj, rr, ss) ==
    LET mr == ModeAt(l, rr)
        ms == ModeAt(l, ss)
        n == mr[2]  m == mr[3]  v == ms[2]  u == ms[3]
        AB == vsh_translation(kind, m, n, u, v, g, kk)
    IN  IF fn = "sphere"
        THEN SphereWrites(ii, jj, mr[1], n, m, ms[1], v, u, AB[1], AB[2], aa)
        ELSE ParticleWrites(ii, jj, mr[1], n, m, ms[1], v, u, AB[1], AB[2])

\* whether iteration (rr, ss) is skipped by the guard
Skipped(l, rr, ss) == SkipGuard(ModeAt(l, rr)[1], ModeAt(l, ss)[1], ModeAt(l, ss)[3])

\* for i in range(Nparticles): for j in range(i+1, Nparticles): the pair
\* after (ii, jj); (0, 0) stands for "no pair yet", <<>> for "loops finished"
NextPairOf(ii, jj, N) ==
    IF jj + 1 < N THEN <<ii, jj + 1>>
    ELSE IF ii + 2 < N THEN <<ii + 1, ii + 2>>
    ELSE <<>>

-----------------------------------------------------------------------------
(* Inputs *)

Seeds == {0, 1}
Layouts == {"axis", "skew", "coincident"}
Translations == {"generic", "parity"}
Wavenumbers == {1}

\* positions[N,3]: "axis" equally spaced on the z axis, "skew" in general
\* position, "coincident" with particles 2q and 2q+1 at the same point
PositionsArray(layout, N) ==
    LET Coord(x) ==
            LET p == x[1]
            IN  IF layout = "axis" THEN (IF x[2] = 2 THEN p ELSE 0)
                ELSE IF layout = "skew"
                     THEN (IF x[2] = 0 THEN p ELSE IF x[2] = 1 THEN p * p ELSE -p)
                     ELSE (IF x[2] = 2 THEN p \div 2 ELSE 0)
    IN  [shape |-> <<N, 3>>,
         data  |-> [qq \in Range(Product(<<N, 3>>)) |-> Coord(Unflat(qq, <<N, 3>>))]]

\* a[N,2,lmax]: a different value for every particle, polarization and degree
CoefArray(seed, N, l) ==
    LET Coef(x) == 1 + seed + x[3] + 4 * x[2] + 8 * x[1]
    IN  [shape |-> <<N, 2, l>>,
         data  |-> [qq \in Range(Product(<<N, 2, l>>)) |-> Coef(Unflat(qq, <<N, 2, l>>))]]

\* degree n of the mode with linear index d
DegreeOf(l, d) == ModeAt(l, d)[2]

\* tmatrix[N,2,rmax,2,rmax], purely diagonal: a on the diagonal, zero elsewhere
DiagonalTmatrix(aa) ==
    LET N == aa.shape[1]
        l == aa.shape[3]
        rm == lmax_to_rmax(l)
        T(x) == IF x[2] = x[4] /\ x[3] = x[5]
                THEN aa.data[Flat3(<<x[1], x[2], DegreeOf(l, x[3]) - 1>>, aa.shape)]
                ELSE 0
    IN  [shape |-> <<N, 2, rm, 2, rm>>,
         data  |-> [qq \in Range(Product(<<N, 2, rm, 2, rm>>)) |-> T(Unflat(qq, <<N, 2, rm, 2, rm>>))]]

\* tmatrix[N,2,rmax,2,rmax] with off-diagonal entries
FullTmatrix(N, rm) ==
    LET T(x) == 1 + ((x[1] + 2 * x[2] + 3 * x[3] + 5 * x[4] + 7 * x[5]) % 3)
    IN  [shape |-> <<N, 2, rm, 2, rm>>,
         data  |-> [qq \in Range(Product(<<N, 2, rm, 2, rm>>)) |-> T(Unflat(qq, <<N, 2, rm, 2, rm>>))]]

\* p_src[N,2,rmax]
SourceArray(seed, sh) ==
    LET P(x) == 1 + ((seed + x[1] + 2 * x[2] + 3 * x[3]) % 4)
    IN  [shape |-> sh,
         data  |-> [qq \in Range(Product(sh)) |-> P(Unflat(qq, sh))]]

-----------------------------------------------------------------------------
(* Initial states: the moment solve_sphere_cluster / solve_particle_cluster *)
(* is called.  N, Na and Ns are the particle counts of positions, of the   *)
(* coefficients (or T-matrices) and of the source; l and ls the truncation *)
(* degrees of the coefficients and of the source.                          *)

InitWith(N, Na, Ns, l, ls, layouts, kinds) ==
    /\ func \in {"sphere", "particle"}
    /\ k \in Wavenumbers
    /\ translation \in kinds
    /\ \E layout \in layouts : positions = PositionsArray(layout, N)
    /\ \E seed \in Seeds :
          /\ p_src = SourceArray(seed, <<Ns, 2, lmax_to_rmax(ls)>>)
          /\ \/ /\ func = "sphere"
                /\ a = CoefArray(seed, Na, l)
                /\ tmatrix = NoArray
             \/ /\ func = "particle"
                /\ a = NoArray
                /\ tmatrix \in {DiagonalTmatrix(CoefArray(seed, Na, l)),
                                FullTmatrix(Na, lmax_to_rmax(l))}
    /\ pc = "call"
    /\ err = "none"
    /\ Nparticles = 0 /\ lmax = 0 /\ rmax = 0
    /\ i = 0 /\ j = 0 /\ r = 0 /\ s = 0
    /\ geom = Spherical(<<0, 0, 0>>)
    /\ interaction_matrix = NoArray
    /\ t_matrix = NoArray
    /\ sol = NoArray
    /\ calls = {}
    /\ ncalls = 0
    /\ written = <<>>

\* inputs whose shapes agree
Init ==
    \E N \in 1 .. MaxN, l \in 1 .. MaxLmax :
        InitWith(N, N, N, l, l, Layouts, Translations)

\* inputs of which at most one of the coefficients' particle count, the
\* source's particle count and the source's mode count disagrees with the rest
InitMismatch ==
    \E N \in 1 .. MaxN, Na \in 1 .. MaxN, Ns \in 1 .. MaxN,
       l \in 1 .. MaxLmax, ls \in 1 .. MaxLmax :
        /\ \/ Na = N /\ Ns = N
           \/ Na = N /\ ls = l
           \/ Ns = N /\ ls = l
        /\ InitWith(N, Na, Ns, l, ls, {"axis"}, {"generic"})

-----------------------------------------------------------------------------
(* Tensor operations of numpy used by the assembler and the solver *)

RECURSIVE SumFn(_, _)
SumFn(f, n) == IF n = 0 THEN 0 ELSE f[n - 1] + SumFn(f, n - 1)

\* np.einsum('iabjcd,jcdef->iabjef', interaction_matrix, tmatrix)
EinsumShapesAgree(M, T) ==
    /\ T.shape[1] = M.shape[4]
    /\ T.shape[2] = M.shape[5]
    /\ T.shape[3] = M.shape[6]

EinsumMut(M, T) ==
    LET sh == <<M.shape[1], M.shape[2], M.shape[3], M.shape[4], T.shape[4], T.shape[5]>>
        nc == M.shape[5]
        nd == M.shape[6]
        E(x) == SumFn([q \in Range(nc * nd) |->
                         M.data[Flat6(<<x[1], x[2], x[3], x[4], q \div nd, q % nd>>, M.shape)]
                         * T.data[Flat5(<<x[1], q \div nd, q % nd, x[5], x[6]>>, T.shape)]],
                      nc * nd)
    IN  [shape |-> sh,
         data  |-> [qq \in Range(Product(sh)) |-> E(Unflat(qq, sh))]]

Einsum(M, T) ==
    LET sh == <<M.shape[1], M.shape[2], M.shape[3], M.shape[4], T.shape[4], T.shape[5]>>
        nc == M.shape[5]
        nd == M.shape[6]
        E(x) == SumFn([q \in Range(nc * nd) |->
                         M.data[Flat6(<<x[1], x[2], x[3], x[4], q \div nd, q % nd>>, M.shape)]
                         * T.data[Flat5(<<x[4], q \div nd, q % nd, x[5], x[6]>>, T.shape)]],
                      nc * nd)
    IN  [shape |-> sh,
         data  |-> [qq \in Range(Product(sh)) |-> E(Unflat(qq, sh))]]

\* np.linalg.tensorsolve(A, b): the trailing axes of A not matched by b
OldShape(A, b) == SubSeq(A.shape, Len(b.shape) + 1, Len(A.shape))

\* row q of the reshaped square system applied to x, and entry q of b.ravel()
RowTimes(A, x, q) ==
    LET n == Product(x.shape)
    IN  SumFn([c \in Range(n) |-> A.data[q * n + c] * x.data[c]], n)

Ravel(b, q) == b.data[q]

\* x solves the reshaped system A x = b
Solves(A, x, b) ==
    \A q \in Range(Product(x.shape)) : RowTimes(A, x, q) = Ravel(b, q)

\* The values a solution is looked for among.
SolutionCandidates(sh) ==
    {SourceArray(seed, sh) : seed \in Seeds}
        \cup {[shape |-> sh, data |-> [q \in Range(Product(sh)) |-> 0]]}

\* a solution whose values lie outside SolutionCandidates (or a singular system)
Unrepresented(sh) == [shape |-> sh, data |-> <<>>]

\* [err, x]: tensorsolve raises on a size mismatch, otherwise returns an
\* x of shape OldShape(A, b) with A x = b
tensorsolve(A, b) ==
    LET sh == OldShape(A, b)
        good == {x \in SolutionCandidates(sh) : Solves(A, x, b)}
    IN  IF Product(b.shape) # Product(sh)
        THEN {[err |-> "ValueError", x |-> NoArray]}
        ELSE IF good = {}
             THEN {[err |-> "none", x |-> Unrepresented(sh)]}
             ELSE {[err |-> "none", x |-> x] : x \in good}

-----------------------------------------------------------------------------
(* Steps of solve_sphere_cluster / solve_particle_cluster *)

\* Nparticles = positions.shape[0]; lmax, rmax from a.shape[-1] or tmatrix.shape[-1];
\* interaction_matrix = np.zeros(...)
Enter ==
    /\ pc = "call"
    /\ Nparticles' = positions.shape[1]
    /\ IF func = "sphere"
       THEN /\ lmax' = a.shape[3]
            /\ rmax' = lmax_to_rmax(a.shape[3])
       ELSE /\ rmax' = tmatrix.shape[5]
            /\ lmax' = rmax_to_lmax(tmatrix.shape[5])
    /\ interaction_matrix' = Zeros(Nparticles', rmax')
    /\ written' = [q \in Range(Product(interaction_matrix'.shape)) |-> FALSE]
    /\ pc' = "pair"
    /\ UNCHANGED <<inputs, err, i, j, r, s, geom, t_matrix, sol, calls, ncalls>>

\* the two particle loop headers and the separation of the pair they select
NextPair ==
    /\ pc = "pair"
    /\ LET np == NextPairOf(i, j, Nparticles)
       IN  IF np = <<>>
           THEN /\ pc' = "sum"
                /\ UNCHANGED <<i, j, geom>>
           ELSE /\ i' = np[1]
                /\ j' = np[2]
                /\ geom' = PairGeometry(positions, np[1], np[2])
                /\ pc' = "modes"
    /\ r' = 0
    /\ s' = 0
    /\ UNCHANGED <<inputs, err, Nparticles, lmax, rmax, interaction_matrix,
                   t_matrix, sol, calls, ncalls, written>>

\* the two mode loop headers: the iteration after (r, s)
Advance ==
    IF s + 1 < rmax THEN /\ s' = s + 1
                         /\ UNCHANGED <<r, pc>>
    ELSE IF r + 1 < rmax THEN /\ r' = r + 1
                              /\ s' = 0
                              /\ UNCHANGED pc
    ELSE /\ pc' = "pair"
         /\ UNCHANGED <<r, s>>

\* if s - 2*u < r: continue
SkipMode ==
    /\ pc = "modes"
    /\ Skipped(lmax, r, s)
    /\ Advance
    /\ UNCHANGED <<inputs, err, Nparticles, lmax, rmax, i, j, geom,
                   interaction_matrix, t_matrix, sol, calls, ncalls, written>>

\* one vsh_translation call and the sixteen assignments that follow it
Transfer ==
    /\ pc = "modes"
    /\ ~Skipped(lmax, r, s)
    /\ calls' = calls \cup {<<i, j, r, s>>}
    /\ ncalls' = ncalls + 1
    /\ IF func = "sphere" /\ j >= a.shape[1]
       THEN \* a[j,0,v-1] is out of bounds: IndexError before the first assignment
            /\ pc' = "error"
            /\ err' = "IndexError"
            /\ UNCHANGED <<r, s, interaction_matrix, written>>
       ELSE LET ws == IterationWrites(func, translation, geom, a, k, lmax, i, j, r, s)
                st == ApplyWrites([m |-> interaction_matrix, n |-> 0, ok |-> TRUE], ws, 1)
            IN  /\ interaction_matrix' = st.m
                /\ written' = MarkWritten(written, interaction_matrix.shape, ws, 1, st.n)
                /\ IF st.ok
                   THEN Advance /\ UNCHANGED err
                   ELSE /\ pc' = "error"
                        /\ err' = "IndexError"
                        /\ UNCHANGED <<r, s>>
    /\ UNCHANGED <<inputs, Nparticles, lmax, rmax, i, j, geom, t_matrix, sol>>

\* sphere:   t_matrix = identity + interaction_matrix
\* particle: interaction_matrix = np.einsum(...); A = identity + interaction_matrix
Combine ==
    /\ pc = "sum"
    /\ IF func = "sphere"
       THEN /\ t_matrix' = AddArrays(Identity(Nparticles, rmax), interaction_matrix)
            /\ pc' = "solve"
            /\ UNCHANGED <<interaction_matrix, err>>
       ELSE IF EinsumShapesAgree(interaction_matrix, tmatrix)
            THEN /\ interaction_matrix' = Einsum(interaction_matrix, tmatrix)
                 /\ t_matrix' = AddArrays(Identity(Nparticles, rmax), interaction_matrix')
                 /\ pc' = "solve"
                 /\ UNCHANGED err
            ELSE /\ pc' = "error"
                 /\ err' = "ValueError"
                 /\ UNCHANGED <<interaction_matrix, t_matrix>>
    /\ UNCHANGED <<inputs, Nparticles, lmax, rmax, i, j, r, s, geom, sol,
                   calls, ncalls, written>>

\* sol = np.linalg.tensorsolve(A, p_src)
Solve ==
    /\ pc = "solve"
    /\ \E out \in tensorsolve(t_matrix, p_src) :
          /\ err' = out.err
          /\ sol' = out.x
          /\ pc' = IF out.err = "none" THEN "done" ELSE "error"
    /\ UNCHANGED <<inputs, Nparticles, lmax, rmax, i, j, r, s, geom,
                   interaction_matrix, t_matrix, calls, ncalls, written>>

Next == Enter \/ NextPair \/ SkipMode \/ Transfer \/ Combine \/ Solve

Spec == Init /\ [][Next]_vars

SpecMismatch == InitMismatch /\ [][Next]_vars

-----------------------------------------------------------------------------
(* The assemblers as functions of their arguments: the same loop body run  *)
(* to completion.  cx = [func, translation, positions, coef, k, lmax,      *)
(* rmax, N] is what the loops read.                                        *)

\* for s,v,u in mode_indices(lmax): the iterations (rr, ss), (rr, ss+1), ...
\* of pair (ii, jj); the mode axes of M have extent rmax
RECURSIVE ColumnLoop(_, _, _, _, _, _, _)
ColumnLoop(M, cx, ii, jj, g, rr, ss) ==
    IF ss >= M.shape[6] THEN M
    ELSE IF Skipped(cx.lmax, rr, ss) THEN ColumnLoop(M, cx, ii, jj, g, rr, ss + 1)
    ELSE ColumnLoop(
             ApplyWrites([m |-> M, n |-> 0, ok |-> TRUE],
                         IterationWrites(cx.func, cx.translation, g, cx.coef,
                                         cx.k, cx.lmax, ii, jj, rr, ss), 1).m,
             cx, ii, jj, g, rr, ss + 1)

\* for r,n,m in mode_indices(lmax): the rows rr, rr+1, ... of pair (ii, jj)
RECURSIVE ModeLoop(_, _, _, _, _, _)
ModeLoop(M, cx, ii, jj, g, rr) ==
    IF rr >= M.shape[3] THEN M
    ELSE ModeLoop(ColumnLoop(M, cx, ii, jj, g, rr, 0), cx, ii, jj, g, rr + 1)

\* the particle pairs in loop order
RECURSIVE PairsAfter(_, _, _)
PairsAfter(ii, jj, N) ==
    LET np == NextPairOf(ii, jj, N)
    IN  IF np = <<>> THEN <<>> ELSE <<np>> \o PairsAfter(np[1], np[2], N)

PairOrder(N) == PairsAfter(0, 0, N)

\* the per-pair iterations run in the order of the sequence prs
RECURSIVE PairLoop(_, _, _)
PairLoop(M, cx, prs) ==
    IF prs = <<>> THEN M
    ELSE LET pr == Head(prs)
         IN  PairLoop(ModeLoop(M, cx, pr[1], pr[2],
                               PairGeometry(cx.positions, pr[1], pr[2]), 0),
                      cx, Tail(prs))

SphereContext(pos, aa, kk, kind) ==
    [func |-> "sphere", translation |-> kind, positions |-> pos, coef |-> aa, k |-> kk,
     lmax |-> aa.shape[3], rmax |-> lmax_to_rmax(aa.shape[3]), N |-> pos.shape[1]]

ParticleContext(pos, tm, kk, kind) ==
    [func |-> "particle", translation |-> kind, positions |-> pos, coef |-> NoArray,
     k |-> kk, lmax |-> rmax_to_lmax(tm.shape[5]), rmax |-> tm.shape[5],
     N |-> pos.shape[1]]

sphere_cluster_tmatrix(pos, aa, kk, kind) ==
    LET cx == SphereContext(pos, aa, kk, kind)
    IN  AddArrays(Identity(cx.N, cx.rmax),
                  PairLoop(Zeros(cx.N, cx.rmax), cx, PairOrder(cx.N)))

particle_cluster_tmatrix(pos, tm, kk, kind) ==
    LET cx == ParticleContext(pos, tm, kk, kind)
    IN  AddArrays(Identity(cx.N, cx.rmax),
                  Einsum(PairLoop(Zeros(cx.N, cx.rmax), cx, PairOrder(cx.N)), tm))

-----------------------------------------------------------------------------
(* Vocabulary of the properties *)

\* the assembler has returned
Returned == pc \in {"solve", "done"}

\* the particle and mode loops are over
LoopsDone == pc \in {"sum", "solve", "done"}

ModeOrder(l, q) == ModeAt(l, q)[3]

\* entry [p1, a1, r1, p2, a2, r2] of a rank-6 array
At6(arr, p1, a1, r1, p2, a2, r2) ==
    arr.data[Flat6(<<p1, a1, r1, p2, a2, r2>>, arr.shape)]

\* 1 where the (particle, polarization, mode) triple of the row equals that
\* of the column, 0 elsewhere
IsIdentityOperator(arr, N, rm) ==
    /\ arr.shape = <<N, 2, rm, N, 2, rm>>
    /\ \A p1 \in Range(N), p2 \in Range(N), a1 \in Range(2), a2 \in Range(2),
          r1 \in Range(rm), r2 \in Range(rm) :
          At6(arr, p1, a1, r1, p2, a2, r2)
              = IF p1 = p2 /\ a1 = a2 /\ r1 = r2 THEN 1 ELSE 0

\* two particles share a position
HasCoincident(pos) ==
    \E p \in Range(pos.shape[1]), q \in Range(pos.shape[1]) :
        p < q /\ Row3(pos, p) = Row3(pos, q)

\* the flat indices assigned so far
WrittenSet == {q \in DOMAIN written : written[q]}

\* flat indices of the block (row particle p1, column particle p2)
Block(sh, p1, p2) ==
    {Flat6(<<p1, x[1], x[2], p2, x[3], x[4]>>, sh) :
        x \in Range(2) \X Range(sh[3]) \X Range(2) \X Range(sh[6])}

\* the particle pairs whose mode double loop has run to its end
FinishedPairs ==
    {pr \in Range(Nparticles) \X Range(Nparticles) :
        /\ pr[1] < pr[2]
        /\ \/ LoopsDone
           \/ pc = "modes" /\ (pr[1] < i \/ (pr[1] = i /\ pr[2] < j))
           \/ pc = "pair" /\ i < j /\ (pr[1] < i \/ (pr[1] = i /\ pr[2] <= j))}

-----------------------------------------------------------------------------
(* C1 *)

\* C1: for N = 1 no Translation Operator call is made, the assembler returns
\* exactly the identity operator, and the solver returns x equal to the source.
C1_SingleParticle ==
    positions.shape[1] = 1 =>
        /\ ncalls = 0
        /\ pc # "error"
        /\ Returned => IsIdentityOperator(t_matrix, 1, rmax)
        /\ pc = "done" => sol = p_src

C1_Witness_SolvedSingle ==
    /\ positions.shape[1] = 1
    /\ pc = "done"
    /\ func = "particle"
    /\ lmax = 2
    /\ sol = p_src
    /\ IsIdentityOperator(t_matrix, 1, 8)

-----------------------------------------------------------------------------
(* C4 *)

\* C4: with two particles at the same position the assembler ends in a
\* ConfigurationError before any Translation Operator call and before any
\* coupling entry is written, and never returns an operator.
C4_DegenerateRejected ==
    HasCoincident(positions) =>
        /\ ncalls = 0
        /\ WrittenSet = {}
        /\ ~Returned
        /\ pc = "error" => err = "ConfigurationError"

-----------------------------------------------------------------------------
(* C6 *)

\* C6: the returned operator has shape [2, N, rmax, 2, N, rmax] and the
\* solution has the shape [2, N, rmax] of the source it is contracted against.
C6_PolarizationFirstShape ==
    /\ Returned => t_matrix.shape = <<2, Nparticles, rmax, 2, Nparticles, rmax>>
    /\ pc = "done" => sol.shape = <<2, Nparticles, rmax>>

-----------------------------------------------------------------------------
(* C8 *)

AllIterations ==
    {c \in Range(Nparticles) \X Range(Nparticles) \X Range(rmax) \X Range(rmax) :
        c[1] < c[2]}

\* C8 as stated: within each pair i < j the Translation Operator is called
\* exactly once for each mode pair with s >= r and for no mode pair with s < r.
C8_CalledForUpperTriangle ==
    /\ ncalls = Cardinality(calls)
    /\ LoopsDone => calls = {c \in AllIterations : c[4] >= c[3]}

\* C8 amended: within each pair i < j the Translation Operator is called
\* exactly once for each mode pair whose companion index s - 2u (the index of
\* (v, -u)) is not less than r, and for no other mode pair; no call is made
\* for a particle pair with i >= j.
C8_CalledForCompanionTriangle ==
    /\ ncalls = Cardinality(calls)
    /\ calls \subseteq {c \in AllIterations : c[4] - 2 * ModeOrder(lmax, c[4]) >= c[3]}
    /\ LoopsDone =>
          calls = {c \in AllIterations : c[4] - 2 * ModeOrder(lmax, c[4]) >= c[3]}

C8_Witness_CallBelowDiagonal ==
    /\ LoopsDone
    /\ Nparticles = 3
    /\ lmax = 2
    /\ \E c \in calls : c[4] < c[3]
    /\ \E c \in AllIterations : c[4] >= c[3] /\ c \notin calls
    /\ 2 * ncalls = 3 * rmax * (rmax + 1)

-----------------------------------------------------------------------------
(* C10 *)

\* C10: once the mode double loop has run for a pair (i, j), every entry of
\* block (i, j) and of block (j, i) has been assigned, and every mode index
\* used in an assignment (r, s, s - 2u, r - 2m) lies in 0 .. rmax-1.
C10_BlocksCoveredInRange ==
    /\ \A pr \in FinishedPairs :
          /\ \A q \in Block(interaction_matrix.shape, pr[1], pr[2]) : written[q]
          /\ \A q \in Block(interaction_matrix.shape, pr[2], pr[1]) : written[q]
    /\ (pc = "modes" /\ ~Skipped(lmax, r, s)) =>
          LET ws == IterationWrites(func, translation, geom, a, k, lmax, i, j, r, s)
          IN  \A p \in 1 .. Len(ws) :
                 /\ ws[p][1][3] \in Range(rmax)
                 /\ ws[p][1][6] \in Range(rmax)

C10_Witness_PairCovered ==
    /\ pc = "pair"
    /\ i = 0 /\ j = 1
    /\ Nparticles = 3
    /\ lmax = 2
    /\ Cardinality(WrittenSet) = 2 * (2 * rmax) * (2 * rmax)
    /\ WrittenSet = Block(interaction_matrix.shape, 0, 1)
                       \cup Block(interaction_matrix.shape, 1, 0)

-----------------------------------------------------------------------------
(* C2 *)

\* C2: with purely diagonal T-matrices (a on the diagonal, zero elsewhere)
\* particle_cluster_tmatrix returns, entry for entry, the operator
\* sphere_cluster_tmatrix returns for the scalar coefficients a.
C2_DiagonalTmatrixAgrees ==
    (Returned /\ func = "particle") =>
        \A seed \in Seeds :
            LET aa == CoefArray(seed, Nparticles, lmax)
            IN  tmatrix = DiagonalTmatrix(aa) =>
                    t_matrix = sphere_cluster_tmatrix(positions, aa, k, translation)

C2_Witness_DiagonalRun ==
    /\ pc = "done"
    /\ func = "particle"
    /\ Nparticles = 3
    /\ lmax = 2
    /\ ~HasCoincident(positions)
    /\ tmatrix = DiagonalTmatrix(CoefArray(1, 3, 2))
    /\ t_matrix = sphere_cluster_tmatrix(positions, CoefArray(1, 3, 2), k, translation)
    /\ At6(t_matrix, 0, 0, 0, 1, 1, 5) # 0

-----------------------------------------------------------------------------
(* C3 *)

\* the array with particles 0 and 1 exchanged along the first axis
SwapParticles(arr) ==
    LET n == Product(Tail(arr.shape))
    IN  [shape |-> arr.shape,
         data  |-> [q \in Range(Product(arr.shape)) |->
                      IF q < n THEN arr.data[q + n]
                      ELSE IF q < 2 * n THEN arr.data[q - n]
                      ELSE arr.data[q]]]

\* the Translation Operator behind the call obeys the reversal relations for
\* the separation of particles 0 and 1
ParityAssumption ==
    LET g  == PairGeometry(positions, 0, 1)
        gr == PairGeometry(SwapParticles(positions), 0, 1)
    IN  \A x \in Range(rmax), y \in Range(rmax) :
           LET n == ModeAt(lmax, x)[2]  m == ModeAt(lmax, x)[3]
               v == ModeAt(lmax, y)[2]  u == ModeAt(lmax, y)[3]
               AB  == vsh_translation(translation, m, n, u, v, g, k)
               ABr == vsh_translation(translation, m, n, u, v, gr, k)
           IN  /\ ABr[1] = Parity(n + v) * AB[1]
               /\ ABr[2] = Parity(n + v + 1) * AB[2]

\* the operator assembled after exchanging the two particles
Reassembled ==
    IF func = "sphere"
    THEN sphere_cluster_tmatrix(SwapParticles(positions), SwapParticles(a), k, translation)
    ELSE particle_cluster_tmatrix(SwapParticles(positions), SwapParticles(tmatrix), k,
                                  translation)

BlocksExchanged(T, Tx) ==
    \A p \in Range(2), q \in Range(2), x \in Range(rmax), y \in Range(rmax) :
        /\ At6(Tx, 0, p, x, 1, q, y) = At6(T, 1, p, x, 0, q, y)
        /\ At6(Tx, 1, p, x, 0, q, y) = At6(T, 0, p, x, 1, q, y)

\* C3: for N = 2 and a Translation Operator with A(-d) = (-1)^(n+v) A(d),
\* B(-d) = (-1)^(n+v+1) B(d), re-assembling after exchanging the particles
\* gives an operator whose 0<-1 block is the original 1<-0 block and vice versa.
C3_SwapExchangesBlocks ==
    (Returned /\ Nparticles = 2 /\ ParityAssumption) =>
        BlocksExchanged(t_matrix, Reassembled)

C3_Witness_SwappedPair ==
    /\ pc = "done"
    /\ func = "sphere"
    /\ Nparticles = 2
    /\ lmax = 2
    /\ ~HasCoincident(positions)
    /\ ParityAssumption
    /\ BlocksExchanged(t_matrix, Reassembled)
    /\ At6(Reassembled, 0, 0, 1, 1, 0, 4) # 0
    /\ At6(t_matrix, 1, 0, 1, 0, 0, 4)
          = -(vsh_translation(translation, 0, 1, -1, 2, PairGeometry(positions, 0, 1), k)[1]
                * a.data[Flat3(<<0, 0, 1>>, a.shape)])

-----------------------------------------------------------------------------
(* C5 *)

CoefParticles == IF func = "sphere" THEN a.shape[1] ELSE tmatrix.shape[1]
CoefModes == IF func = "sphere" THEN lmax_to_rmax(a.shape[3]) ELSE tmatrix.shape[5]

ShapesDisagree ==
    \/ CoefParticles # positions.shape[1]
    \/ p_src.shape[1] # positions.shape[1]
    \/ p_src.shape[3] # CoefModes

\* C5: when N or rmax disagrees among positions, coefficients and source, the
\* call ends in a ShapeError with no Translation Operator call made and no
\* coupling entry written.
C5_MismatchFailsFast ==
    ShapesDisagree =>
        /\ ncalls = 0
        /\ WrittenSet = {}
        /\ pc # "done"
        /\ pc = "error" => err = "ShapeError"

-----------------------------------------------------------------------------
(* C7 *)

\* the loops are over and interaction_matrix holds the coupling tensor they built
CouplingFinished == pc = "sum" \/ (Returned /\ func = "sphere")

\* the direct value for iteration c = (i, j, r, s), row polarization p and
\* column polarization q: A or B times a[j,q,v-1] (times nothing in
\* particle_cluster_tmatrix)
DirectValue(c, p, q) ==
    LET n == ModeAt(lmax, c[3])[2]  m == ModeAt(lmax, c[3])[3]
        v == ModeAt(lmax, c[4])[2]  u == ModeAt(lmax, c[4])[3]
        AB == vsh_translation(translation, m, n, u, v,
                              PairGeometry(positions, c[1], c[2]), k)
        X == IF p = q THEN AB[1] ELSE AB[2]
    IN  IF func = "sphere" THEN X * a.data[Flat3(<<c[2], q, v - 1>>, a.shape)] ELSE X

\* the column mode is the companion (n, -m) of the row mode
SelfCompanion(c) == c[4] - 2 * ModeOrder(lmax, c[4]) = c[3]

\* C7 as stated: for every iteration that called the Translation Operator the
\* finished coupling tensor holds the direct value at the i<-j entry (r, s).
C7_DirectValueKept ==
    CouplingFinished =>
        \A c \in calls, p \in Range(2), q \in Range(2) :
            At6(interaction_matrix, c[1], p, c[3], c[2], q, c[4]) = DirectValue(c, p, q)

\* C7 amended: the entry holds the direct value, except that when the column
\* mode is the companion (n, -m) of the row mode (s - 2u = r) the two
\* cross-polarization entries hold minus the direct value, assigned last by
\* the companion assignments of the same iteration.
C7_DirectValueUpToCompanion ==
    CouplingFinished =>
        \A c \in calls, p \in Range(2), q \in Range(2) :
            At6(interaction_matrix, c[1], p, c[3], c[2], q, c[4])
                = IF p # q /\ SelfCompanion(c) THEN -DirectValue(c, p, q)
                  ELSE DirectValue(c, p, q)

C7_Witness_CompanionOverwrite ==
    /\ pc = "sum"
    /\ func = "sphere"
    /\ lmax = 2
    /\ \E c \in calls :
          /\ SelfCompanion(c)
          /\ ModeOrder(lmax, c[3]) # 0
          /\ DirectValue(c, 0, 1) # 0
          /\ At6(interaction_matrix, c[1], 0, c[3], c[2], 1, c[4]) = -DirectValue(c, 0, 1)
          /\ At6(interaction_matrix, c[1], 0, c[3], c[2], 0, c[4]) = DirectValue(c, 0, 0)
    /\ \E c \in calls :
          /\ ~SelfCompanion(c)
          /\ ModeAt(lmax, c[3])[2] # ModeAt(lmax, c[4])[2]
          /\ At6(interaction_matrix, c[1], 1, c[3], c[2], 0, c[4]) = DirectValue(c, 1, 0)
          /\ DirectValue(c, 1, 0) # 0

-----------------------------------------------------------------------------
(* C9 *)

\* flat indices the assignments of the current iteration go to
IterationTargets ==
    LET ws == IterationWrites(func, translation, geom, a, k, lmax, i, j, r, s)
    IN  {Flat6(NpIndex(ws[p][1], interaction_matrix.shape), interaction_matrix.shape) :
            p \in 1 .. Len(ws)}

PairBlocks(sh, pr) == Block(sh, pr[1], pr[2]) \cup Block(sh, pr[2], pr[1])

Reverse(sq) == [p \in 1 .. Len(sq) |-> sq[Len(sq) + 1 - p]]

\* the coupling tensor the loops build when the pairs are taken in order prs
CouplingInOrder(prs) ==
    LET cx == IF func = "sphere"
              THEN SphereContext(positions, a, k, translation)
              ELSE ParticleContext(positions, tmatrix, k, translation)
    IN  PairLoop(Zeros(cx.N, cx.rmax), cx, prs)

\* C9: the iteration for pair (i, j) writes only entries of blocks (i, j) and
\* (j, i), which no other pair's blocks contain; taking the pairs in another
\* order gives the same coupling tensor; same-particle blocks stay untouched
\* and equal the identity in the returned operator.
C9_PairsWriteOwnBlocks ==
    /\ (pc = "modes" /\ ~Skipped(lmax, r, s)) =>
          /\ IterationTargets \subseteq PairBlocks(interaction_matrix.shape, <<i, j>>)
          /\ \A pr \in Range(Nparticles) \X Range(Nparticles) :
                (pr[1] < pr[2] /\ pr # <<i, j>>) =>
                    IterationTargets \cap PairBlocks(interaction_matrix.shape, pr) = {}
    /\ pc \in {"pair", "modes", "sum", "solve", "done"} =>
          \A p \in Range(Nparticles) :
              \A q \in Block(interaction_matrix.shape, p, p) :
                  ~written[q] /\ interaction_matrix.data[q] = 0
    /\ pc = "sum" => interaction_matrix = CouplingInOrder(Reverse(PairOrder(Nparticles)))
    /\ Returned =>
          \A p \in Range(Nparticles), p1 \in Range(2), p2 \in Range(2),
             x \in Range(rmax), y \in Range(rmax) :
              At6(t_matrix, p, p1, x, p, p2, y) = IF p1 = p2 /\ x = y THEN 1 ELSE 0

C9_Witness_ThreePairs ==
    /\ pc = "sum"
    /\ Nparticles = 3
    /\ lmax = 2
    /\ WrittenSet = PairBlocks(interaction_matrix.shape, <<0, 1>>)
                   \cup PairBlocks(interaction_matrix.shape, <<0, 2>>)
                   \cup PairBlocks(interaction_matrix.shape, <<1, 2>>)
    /\ interaction_matrix = CouplingInOrder(<< <<1, 2>>, <<0, 2>>, <<0, 1>> >>)
    /\ \A q \in Block(interaction_matrix.shape, 1, 1) : interaction_matrix.data[q] = 0

====
